---- MODULE Spec2Model ----
(***************************************************************************)
(* Webtoon Processing: merge the pages of a chapter into one tall raster,  *)
(* find the bands of uniform rows, plan the cuts, split the raster.        *)
(*                                                                         *)
(* A raster (PIL image) is a record [width, height, px] where px is the    *)
(* sequence of its rows, top to bottom, and a row is the sequence of its   *)
(* RGB pixels <<r, g, b>>, left to right.  Row and column numbers are the  *)
(* 0-based numbers of the program; sequences are 1-based, so row y of an   *)
(* image is px[y + 1].  A NumPy array of row numbers is a sequence.        *)
(***************************************************************************)
EXTENDS Integers, Sequences, FiniteSets

VARIABLES
    pc,         \* position of the running call
    images,     \* main: the opened input pages, in command-line order
    threshold,  \* args.threshold
    hints,      \* args.heights, the size hints (a, b, c)
    image,      \* the merged raster
    data,       \* group_consecutive: the array it is given
    whitespace, \* the list of bands (arrays of row numbers)
    middles,    \* find_optimal_cuts: the candidate rows
    idx,        \* find_optimal_cuts: number of candidates already walked
    cut_here,   \* find_optimal_cuts: the schedule under construction
    chunks,     \* main: the chunk rasters split returned
    count,      \* main: rows saved so far
    saved,      \* main: the files written
    raised      \* the exception that ended the run, or "none"

vars == <<pc, images, threshold, hints, image, data, whitespace, middles,
          idx, cut_here, chunks, count, saved, raised>>

----------------------------------------------------------------------------
(* Bounds of the model *)

\* longest list of pages given to main
MaxImages == 3
\* longest list of rasters given to a direct call of merge
MaxMerge == 2
\* tallest raster given to a direct call of find_whitespace
MaxRows == 2
\* group_consecutive is given the subsets of 0 .. MaxIndex
MaxIndex == 11

----------------------------------------------------------------------------
(* Small helpers *)

Last(s) == s[Len(s)]

RECURSIVE SumSeq(_)
SumSeq(s) == IF s = <<>> THEN 0 ELSE s[1] + SumSeq(Tail(s))

MaxSeq(s) == CHOOSE m \in {s[k] : k \in 1..Len(s)} :
                 \A k \in 1..Len(s) : s[k] <= m

\* np.nonzero(flags)[0]: the 0-based positions of the true entries, increasing
nonzero(flags) ==
    SelectSeq([k \in 1..Len(flags) |-> k - 1], LAMBDA p : flags[p + 1])

----------------------------------------------------------------------------
(* Rasters *)

Black == <<0, 0, 0>>

\* Image.new("RGB", (width, height)): a black canvas
new_image(width, height) ==
    [width |-> width, height |-> height,
     px |-> [y \in 1..height |-> [x \in 1..width |-> Black]]]

\* paste with the offset forgotten: every image lands at the top
paste_at_top(result, im, y) ==
    [result EXCEPT !.px =
        [r \in 1..result.height |->
            [x \in 1..result.width |->
                IF r <= im.height /\ x <= im.width
                THEN im.px[r][x]
                ELSE result.px[r][x]]]]

\* result.paste(im, (0, y)): im covers the rows y .. y + im.height - 1 of
\* result from column 0 on; the other pixels are kept
paste(result, im, y) ==
    [result EXCEPT !.px =
        [r \in 1..result.height |->
            [x \in 1..result.width |->
                IF /\ r - 1 >= y
                   /\ r - 1 < y + im.height
                   /\ x <= im.width
                THEN im.px[r - y][x]
                ELSE result.px[r][x]]]]

\* the loop of merge from its k-th image on, y being the running offset
RECURSIVE merge_loop(_, _, _, _)
merge_loop(result, ims, k, y) ==
    IF k > Len(ims) THEN result
    ELSE merge_loop(paste(result, ims[k], y), ims, k + 1, y + ims[k].height)

merge(ims) ==
    LET width  == MaxSeq([k \in 1..Len(ims) |-> ims[k].width])
        height == SumSeq([k \in 1..Len(ims) |-> ims[k].height])
    IN  merge_loop(new_image(width, height), ims, 1, 0)

\* image.crop((x1, y1, x2, y2)): a raster of x2 - x1 columns and y2 - y1
\* rows; pixels of the box that lie outside the image are black
crop(im, x1, y1, x2, y2) ==
    [width |-> x2 - x1, height |-> y2 - y1,
     px |-> [r \in 1..(y2 - y1) |->
               [x \in 1..(x2 - x1) |->
                   IF /\ y1 + r - 1 >= 0 /\ y1 + r - 1 < im.height
                      /\ x1 + x - 1 >= 0 /\ x1 + x - 1 < im.width
                   THEN im.px[y1 + r][x1 + x]
                   ELSE Black]]]

----------------------------------------------------------------------------
(* Band detection *)

\* image.convert("L") on one RGB pixel: the ITU-R 601-2 luma the imaging
\* library computes in 16-bit fixed point
luma(p) == (p[1] * 19595 + p[2] * 38470 + p[3] * 7471 + 32768) \div 65536

grayscale(im) ==
    [r \in 1..im.height |-> [x \in 1..im.width |-> luma(im.px[r][x])]]

\* np.split(data, np.nonzero(np.diff(data) > 1)[0] + 1)
diff(d) == [k \in 1..(Len(d) - 1) |-> d[k + 1] - d[k]]

\* the split points without the "+ 1": each jump stays in the earlier band
split_points_no_shift(d) ==
    nonzero([k \in 1..Len(diff(d)) |-> diff(d)[k] > 1])

split_points(d) ==
    LET jumps == nonzero([k \in 1..Len(diff(d)) |-> diff(d)[k] > 1])
    IN  [k \in 1..Len(jumps) |-> jumps[k] + 1]

np_split(d, points) ==
    [j \in 1..(Len(points) + 1) |->
        SubSeq(d,
               (IF j = 1 THEN 0 ELSE points[j - 1]) + 1,
               IF j = Len(points) + 1 THEN Len(d) ELSE points[j])]

group_consecutive(d) == np_split(d, split_points(d))

\* the mode switch with the boundary on the wrong side
whitespace_mode_inclusive(t) == t >= 127

whitespace_mode(t) == t > 127

\* np.all(grayscale >= threshold, axis=1) resp. np.all(grayscale <= threshold, axis=1)
row_flags(gray, t) ==
    [r \in 1..Len(gray) |->
        IF whitespace_mode(t)
        THEN \A x \in 1..Len(gray[r]) : gray[r][x] >= t
        ELSE \A x \in 1..Len(gray[r]) : gray[r][x] <= t]

find_whitespace(im, t) == group_consecutive(nonzero(row_flags(grayscale(im), t)))

----------------------------------------------------------------------------
(* Cut planner *)

min_space_height == 40

\* the span test with >= for >
wide_enough_inclusive(space) == Last(space) - space[1] >= min_space_height

\* space[-1] - space[0] > min_space_height
wide_enough(space) == Last(space) - space[1] > min_space_height

\* the rows in the middle of the bands that are large enough
candidates(ws) ==
    IF Len(ws[1]) = 0
    THEN <<>>
    ELSE LET wide == SelectSeq(ws, wide_enough)
         IN  [k \in 1..Len(wide) |-> (wide[k][1] + Last(wide[k])) \div 2]

\* cut_here = [0, hints[0]] if hints[0] > 0 else [0]
first_cuts(h) == IF h[1] > 0 THEN <<0, h[1]>> ELSE <<0>>

\* the candidate test against the wrong hint
accepts_last_hint(y, cuts, h) == y - Last(cuts) >= h[3]

\* y - cut_here[-1] >= hints[1]
accepts(y, cuts, h) == y - Last(cuts) >= h[2]

\* the tail: append the image height, or move the last cut onto it
with_tail(cuts, height, h) ==
    IF Last(cuts) < height
    THEN IF Last(cuts) = 0 \/ height - Last(cuts) >= h[3]
         THEN Append(cuts, height)
         ELSE [cuts EXCEPT ![Len(cuts)] = height]
    ELSE cuts

----------------------------------------------------------------------------
(* Splitter *)

split(im, cuts) ==
    [k \in 1..(Len(cuts) - 1) |-> crop(im, 0, cuts[k], im.width, cuts[k + 1])]

----------------------------------------------------------------------------
(* Operations *)

NoImage == new_image(0, 0)
NoFiles == [numbered |-> <<>>, all |-> NoImage]

\* main, line 338: image = merge(images)
Merge ==
    /\ pc = "merge"
    /\ image' = merge(images)
    /\ pc' = "find_whitespace"
    /\ UNCHANGED <<images, threshold, hints, data, whitespace, middles, idx,
                   cut_here, chunks, count, saved, raised>>

\* main, line 341: whitespace = find_whitespace(image, threshold)
FindWhitespace ==
    /\ pc = "find_whitespace"
    /\ whitespace' = find_whitespace(image, threshold)
    /\ pc' = "find_optimal_cuts"
    /\ UNCHANGED <<images, threshold, hints, image, data, middles, idx,
                   cut_here, chunks, count, saved, raised>>

\* a direct call of group_consecutive(data); data is one-dimensional, so
\* the check of data.ndim passes
GroupConsecutive ==
    /\ pc = "group_consecutive"
    /\ whitespace' = group_consecutive(data)
    /\ pc' = "grouped"
    /\ UNCHANGED <<images, threshold, hints, image, data, middles, idx,
                   cut_here, chunks, count, saved, raised>>

\* find_optimal_cuts up to its loop: the check of the hints, the candidate
\* rows (whitespace[0] of an empty list raises IndexError), the first cuts
CutsEnter ==
    /\ pc = "find_optimal_cuts"
    /\ IF Len(hints) # 3
       THEN /\ raised' = "Exception"
            /\ pc' = "raised"
            /\ UNCHANGED <<middles, cut_here, idx>>
       ELSE IF whitespace = <<>>
       THEN /\ raised' = "IndexError"
            /\ pc' = "raised"
            /\ UNCHANGED <<middles, cut_here, idx>>
       ELSE /\ middles' = candidates(whitespace)
            /\ cut_here' = first_cuts(hints)
            /\ idx' = 0
            /\ pc' = "greedy"
            /\ UNCHANGED raised
    /\ UNCHANGED <<images, threshold, hints, image, data, whitespace, chunks,
                   count, saved>>

\* one turn of "for y in middles"
GreedyStep ==
    /\ pc = "greedy"
    /\ idx < Len(middles)
    /\ LET y == middles[idx + 1]
       IN  cut_here' = IF accepts(y, cut_here, hints)
                       THEN Append(cut_here, y)
                       ELSE cut_here
    /\ idx' = idx + 1
    /\ UNCHANGED <<pc, images, threshold, hints, image, data, whitespace,
                   middles, chunks, count, saved, raised>>

\* the end of the loop, the tail, and the return of the schedule
TailStep ==
    /\ pc = "greedy"
    /\ idx = Len(middles)
    /\ cut_here' = with_tail(cut_here, image.height, hints)
    /\ pc' = "returned"
    /\ UNCHANGED <<images, threshold, hints, image, data, whitespace, middles,
                   idx, chunks, count, saved, raised>>

\* main, line 347: images = split(image, cut_here); the code reuses the
\* name images for the chunks, which the model keeps apart as chunks
Split ==
    /\ pc = "returned"
    /\ chunks' = split(image, cut_here)
    /\ pc' = "save"
    /\ UNCHANGED <<images, threshold, hints, image, data, whitespace, middles,
                   idx, cut_here, count, saved, raised>>

\* main, lines 350-365: the chunks are saved under their numbers, their
\* heights are counted, and the merged raster is saved as "all"
Save ==
    /\ pc = "save"
    /\ count' = SumSeq([k \in 1..Len(chunks) |-> chunks[k].height])
    /\ saved' = [numbered |-> chunks, all |-> image]
    /\ pc' = "done"
    /\ UNCHANGED <<images, threshold, hints, image, data, whitespace, middles,
                   idx, cut_here, chunks, raised>>

----------------------------------------------------------------------------
(* The inputs *)

White == <<250, 250, 250>>
Ink   == <<3, 3, 3>>
Cream == <<255, 255, 200>>   \* luma 249
Navy  == <<0, 0, 40>>        \* luma 5
Grey  == <<128, 128, 128>>

raster(rows) == [width |-> Len(rows[1]), height |-> Len(rows), px |-> rows]

\* a page of one colour
page(w, h, p) == raster([y \in 1..h |-> [x \in 1..w |-> p]])

\* blank pages just below, at and above the span that yields a candidate,
\* and drawn pages, narrower than the blank ones
Pages ==
    {page(2, 41, White), page(2, 42, White), page(2, 43, White),
     page(1, 2, Ink), page(1, 42, Ink)}

SeqsUpTo(S, n) == UNION {[1..k -> S] : k \in 1..n}

HintSet ==
    {<<a, b, c>> : a \in {-1, 0, 11, 60}, b \in {10, 30}, c \in {1, 70}}

\* every raster of the given colours, 1 or 2 columns, at most h rows
Rasters(colours, h) ==
    {raster(rows) : rows \in UNION {[1..n -> [1..w -> colours]] :
                                        n \in 1..h, w \in 1..2}}

RECURSIVE sorted(_)
sorted(S) ==
    IF S = {} THEN <<>>
    ELSE LET m == CHOOSE x \in S : \A z \in S : x <= z
         IN  <<m>> \o sorted(S \ {m})

----------------------------------------------------------------------------
(* The program: main *)

Init ==
    /\ pc = "merge"
    /\ images \in SeqsUpTo(Pages, MaxImages)
    /\ threshold = 245
    /\ hints \in HintSet
    /\ image = NoImage
    /\ data = <<>>
    /\ whitespace = <<>>
    /\ middles = <<>>
    /\ idx = 0
    /\ cut_here = <<>>
    /\ chunks = <<>>
    /\ count = 0
    /\ saved = NoFiles
    /\ raised = "none"

Next ==
    \/ Merge
    \/ FindWhitespace
    \/ CutsEnter
    \/ GreedyStep
    \/ TailStep
    \/ Split
    \/ Save

Spec == Init /\ [][Next]_vars

----------------------------------------------------------------------------
(* Direct calls of merge *)

InitMerge ==
    /\ pc = "merge"
    /\ images \in SeqsUpTo(Rasters({White, Ink}, 2), MaxMerge)
    /\ threshold = 245
    /\ hints = <<0, 1000, 800>>
    /\ image = NoImage
    /\ data = <<>>
    /\ whitespace = <<>>
    /\ middles = <<>>
    /\ idx = 0
    /\ cut_here = <<>>
    /\ chunks = <<>>
    /\ count = 0
    /\ saved = NoFiles
    /\ raised = "none"

SpecMerge == InitMerge /\ [][Merge]_vars

----------------------------------------------------------------------------
(* Direct calls of find_whitespace *)

InitBand ==
    /\ pc = "find_whitespace"
    /\ image \in Rasters({White, Ink, Cream, Navy, Grey}, MaxRows)
    /\ threshold \in {5, 127, 128, 245}
    /\ images = <<>>
    /\ hints = <<0, 1000, 800>>
    /\ data = <<>>
    /\ whitespace = <<>>
    /\ middles = <<>>
    /\ idx = 0
    /\ cut_here = <<>>
    /\ chunks = <<>>
    /\ count = 0
    /\ saved = NoFiles
    /\ raised = "none"

SpecBand == InitBand /\ [][FindWhitespace]_vars

----------------------------------------------------------------------------
(* Direct calls of group_consecutive *)

InitGroup ==
    /\ pc = "group_consecutive"
    /\ data \in {sorted(S) : S \in SUBSET (0..MaxIndex)}
    /\ images = <<>>
    /\ threshold = 245
    /\ hints = <<0, 1000, 800>>
    /\ image = NoImage
    /\ whitespace = <<>>
    /\ middles = <<>>
    /\ idx = 0
    /\ cut_here = <<>>
    /\ chunks = <<>>
    /\ count = 0
    /\ saved = NoFiles
    /\ raised = "none"

SpecGroup == InitGroup /\ [][GroupConsecutive]_vars

----------------------------------------------------------------------------
(* Direct calls of find_optimal_cuts: the band list is the one band        *)
(* detection finds in the raster, or the empty list                        *)

InitCuts ==
    /\ pc = "find_optimal_cuts"
    /\ image \in {merge(ims) : ims \in SeqsUpTo(Pages, MaxMerge)}
    /\ whitespace \in {find_whitespace(image, 245), <<>>}
    /\ hints \in HintSet \cup {<<0, 1000>>}
    /\ images = <<>>
    /\ threshold = 245
    /\ data = <<>>
    /\ middles = <<>>
    /\ idx = 0
    /\ cut_here = <<>>
    /\ chunks = <<>>
    /\ count = 0
    /\ saved = NoFiles
    /\ raised = "none"

NextCuts ==
    \/ CutsEnter
    \/ GreedyStep
    \/ TailStep

SpecCuts == InitCuts /\ [][NextCuts]_vars

----------------------------------------------------------------------------
(* Properties *)

\* the sequences of a list joined in order
RECURSIVE Flatten(_)
Flatten(ss) == IF ss = <<>> THEN <<>> ELSE ss[1] \o Flatten(Tail(ss))

\* find_optimal_cuts has returned its schedule
Returned == pc \in {"returned", "save", "done"}

\* three hints, the two minimum heights positive
ValidHints == Len(hints) = 3 /\ hints[2] > 0 /\ hints[3] > 0

\* row r of the raster was classified uniform: it is in a band
Uniform(r) ==
    \E j \in 1..Len(whitespace) :
        \E i \in 1..Len(whitespace[j]) : whitespace[j][i] = r

\* C1. Whatever the raster, its bands and the hints (b and c positive), the
\* returned schedule has at least two entries, starts at 0, ends at the
\* height of the raster and is strictly increasing.
C1_ScheduleInvariants ==
    (Returned /\ ValidHints) =>
        /\ Len(cut_here) >= 2
        /\ cut_here[1] = 0
        /\ Last(cut_here) = image.height
        /\ \A k \in 1..(Len(cut_here) - 1) : cut_here[k] < cut_here[k + 1]

\* C2. With a positive first hint a, the returned schedule starts with 0 and
\* a, so that the first chunk is the rows [0, a) and is a rows tall.
C2_FirstHintHonored ==
    (Returned /\ ValidHints /\ hints[1] > 0) =>
        /\ Len(cut_here) >= 2
        /\ cut_here[1] = 0
        /\ cut_here[2] = hints[1]
        /\ pc \in {"save", "done"} => chunks[1].height = hints[1]

\* C3. Every chunk of the returned schedule that is neither the first nor the
\* last is at least b rows tall, also when the tail step moved the last
\* accepted cut to the height of the raster.
C3_InnerChunksAtLeastB ==
    (Returned /\ ValidHints) =>
        \A k \in 2..(Len(cut_here) - 2) :
            cut_here[k + 1] - cut_here[k] >= hints[2]

\* a schedule with an inner chunk whose last cut was moved by the tail step
\* (a last chunk shorter than c is never an appended one)
C3_Witness ==
    /\ Returned
    /\ ValidHints
    /\ Len(cut_here) >= 4
    /\ Last(cut_here) = image.height
    /\ Last(cut_here) - cut_here[Len(cut_here) - 1] < hints[3]

\* C4. A returned schedule of more than one chunk has a last chunk at least
\* c rows tall.
C4_LastChunkAtLeastC ==
    (Returned /\ ValidHints /\ Len(cut_here) > 2) =>
        Last(cut_here) - cut_here[Len(cut_here) - 1] >= hints[3]

\* C5. Given valid hints and no whitespace (an empty band list, or one empty
\* band), find_optimal_cuts raises nothing, has no candidate and returns the
\* schedule the hints alone decide: [0, H] when a <= 0.
C5_NoWhitespaceNeverCrashes ==
    (ValidHints /\ (whitespace = <<>> \/ whitespace = << <<>> >>)) =>
        /\ raised = "none"
        /\ pc \in {"greedy", "returned"} => middles = <<>>
        /\ pc = "returned" =>
            /\ cut_here = with_tail(first_cuts(hints), image.height, hints)
            /\ hints[1] <= 0 => cut_here = <<0, image.height>>

\* C6. The chunks are as many as the schedule has intervals, their heights
\* add up to the height of the raster, chunk k is the rows
\* [schedule[k], schedule[k+1]) of the raster at full width, and the chunks
\* stacked in order are the raster.
C6_RoundTrip ==
    (pc \in {"save", "done"} /\ ValidHints) =>
        /\ Len(chunks) = Len(cut_here) - 1
        /\ SumSeq([k \in 1..Len(chunks) |-> chunks[k].height]) = image.height
        /\ pc = "done" => count = image.height
        /\ Flatten([k \in 1..Len(chunks) |-> chunks[k].px]) = image.px
        /\ \A k \in 1..Len(chunks) :
            /\ chunks[k].width = image.width
            /\ chunks[k].px = SubSeq(image.px, cut_here[k] + 1, cut_here[k + 1])

\* C7. group_consecutive cuts a strictly increasing array into its maximal
\* runs of consecutive numbers: the bands joined are the array, neighbours
\* in a band differ by 1, a band starts at least 2 after the band before
\* it ends, and 0 1 4 5 6 8 10 11 gives (0,1) (4,6) (8,8) (10,11).
C7_MaximalRuns ==
    pc = "grouped" =>
        /\ Flatten(whitespace) = data
        /\ \A j \in 1..Len(whitespace) :
            \A i \in 1..(Len(whitespace[j]) - 1) :
                whitespace[j][i + 1] - whitespace[j][i] = 1
        /\ \A j \in 1..(Len(whitespace) - 1) :
            /\ whitespace[j] # <<>>
            /\ whitespace[j + 1] # <<>>
            /\ whitespace[j + 1][1] - Last(whitespace[j]) >= 2
        /\ data = <<0, 1, 4, 5, 6, 8, 10, 11>> =>
            whitespace = << <<0, 1>>, <<4, 5, 6>>, <<8>>, <<10, 11>> >>

C7_Witness ==
    /\ pc = "grouped"
    /\ data = <<0, 1, 4, 5, 6, 8, 10, 11>>
    /\ Len(whitespace) = 4

\* C8, as stated. A row is uniform iff every channel of every pixel of the
\* row is >= T (T > 127) resp. <= T (T <= 127).
C8_EveryChannel ==
    pc = "find_optimal_cuts" =>
        \A r \in 0..(image.height - 1) :
            Uniform(r) <=>
                IF threshold > 127
                THEN \A x \in 1..image.width : \A c \in 1..3 :
                         image.px[r + 1][x][c] >= threshold
                ELSE \A x \in 1..image.width : \A c \in 1..3 :
                         image.px[r + 1][x][c] <= threshold

\* C8, amended. A row is uniform iff the grayscale value of every pixel of
\* the row is >= T (T > 127) resp. <= T (T <= 127); a row of pixels 250 is
\* uniform at 245 and not at 5, a row of pixels 3 is uniform at 5.
C8_EveryLuma ==
    pc = "find_optimal_cuts" =>
        \A r \in 0..(image.height - 1) :
            /\ Uniform(r) <=>
                IF threshold > 127
                THEN \A x \in 1..image.width :
                         luma(image.px[r + 1][x]) >= threshold
                ELSE \A x \in 1..image.width :
                         luma(image.px[r + 1][x]) <= threshold
            /\ (\A x \in 1..image.width : image.px[r + 1][x] = <<250, 250, 250>>) =>
                /\ threshold = 245 => Uniform(r)
                /\ threshold = 5 => ~Uniform(r)
            /\ (\A x \in 1..image.width : image.px[r + 1][x] = <<3, 3, 3>>) =>
                (threshold = 5 => Uniform(r))

\* a uniform row of whitespace with a channel below the threshold
C8_Witness ==
    /\ pc = "find_optimal_cuts"
    /\ threshold > 127
    /\ \E r \in 0..(image.height - 1) :
        /\ Uniform(r)
        /\ \E x \in 1..image.width : \E c \in 1..3 :
               image.px[r + 1][x][c] < threshold

\* C9. The merged raster is as tall as the inputs together and as wide as
\* the widest; input k lies from column 0 in the rows after those of the
\* inputs before it, and the columns right of it are black.
C9_MergePlacement ==
    (pc = "find_whitespace" /\ images # <<>>) =>
        /\ image.height = SumSeq([k \in 1..Len(images) |-> images[k].height])
        /\ \A k \in 1..Len(images) : images[k].width <= image.width
        /\ \E k \in 1..Len(images) : images[k].width = image.width
        /\ Len(image.px) = image.height
        /\ \A k \in 1..Len(images) :
            LET above == SumSeq([j \in 1..(k - 1) |-> images[j].height])
            IN  \A r \in 1..images[k].height :
                    /\ Len(image.px[above + r]) = image.width
                    /\ \A x \in 1..image.width :
                        image.px[above + r][x] =
                            IF x <= images[k].width
                            THEN images[k].px[r][x]
                            ELSE <<0, 0, 0>>

\* inputs of different widths have been merged
C9_Witness ==
    /\ pc = "find_whitespace"
    /\ Len(images) >= 2
    /\ images[2].width < images[1].width
    /\ image.height = images[1].height + images[2].height

\* the greedy pass of the claim over a list of candidates
RECURSIVE GreedyPass(_, _, _)
GreedyPass(schedule, cands, b) ==
    IF cands = <<>> THEN schedule
    ELSE GreedyPass(IF cands[1] - Last(schedule) >= b
                    THEN Append(schedule, cands[1])
                    ELSE schedule,
                    Tail(cands), b)

\* the floor midpoints of the bands with end - start > 40
Midpoints(bands) ==
    LET usable == SelectSeq(bands, LAMBDA s : s # <<>> /\ s[Len(s)] - s[1] > 40)
    IN  [k \in 1..Len(usable) |-> (usable[k][1] + usable[k][Len(usable[k])]) \div 2]

\* C10. When the loop over the candidates ends, and after each of its
\* turns, the schedule is the greedy pass from [0] (a <= 0) or [0, a]
\* (a > 0) over the midpoints walked so far of the bands with end - start
\* > 40, a candidate being taken iff it is at least b after the last
\* entry; every entry but 0 and a is a uniform row.
C10_GreedyPass ==
    (pc = "greedy" /\ ValidHints) =>
        /\ middles = Midpoints(whitespace)
        /\ cut_here =
            GreedyPass(IF hints[1] > 0 THEN <<0, hints[1]>> ELSE <<0>>,
                       SubSeq(Midpoints(whitespace), 1, idx), hints[2])
        /\ \A k \in 1..Len(cut_here) :
            cut_here[k] \in {0, hints[1]} \/ Uniform(cut_here[k])

\* the loop has ended with a candidate taken and a candidate skipped
C10_Witness ==
    /\ pc = "greedy"
    /\ ValidHints
    /\ idx = Len(middles)
    /\ Len(middles) >= 2
    /\ Len(cut_here) > Len(first_cuts(hints))
    /\ Len(cut_here) < Len(first_cuts(hints)) + Len(middles)

====
